---- MODULE Spec2Model ----
(***************************************************************************)
(* Filter algebra of zipline/modelling/filter.py: the operator dispatch    *)
(* routine (binary_operator), Filter.then, NumExprFilter, PercentileFilter *)
(* and SequencedFilter.                                                    *)
(*                                                                         *)
(* Terms are records.  Because Term construction interns nodes by their    *)
(* identity, two terms are the same instance (Python `is`) exactly when    *)
(* the records are equal.  Expression strings are sequences of one-        *)
(* character strings, so that the format calls of the source are modelled  *)
(* character by character.                                                 *)
(***************************************************************************)
EXTENDS Integers, Sequences, FiniteSets, TLC

VARIABLES terms, outcome, run

vars == <<terms, outcome, run>>

(***************************************************************************)
(* Bounds of the model.                                                    *)
(***************************************************************************)
\* How many operator and constructor applications on the leaf terms the terms
\* a session holds are made of, in all.
MaxSize == 1
\* How many entities (columns) a panel of the compute model has.
NumEntities == 2

(***************************************************************************)
(* Terms and Python values.                                                *)
(***************************************************************************)
MkTerm(cls, name, expr, inputs, lo, hi, then) ==
    [cls |-> cls, name |-> name, expr |-> expr, inputs |-> inputs,
     min_percentile |-> lo, max_percentile |-> hi, then |-> then]

\* A Factor: a Term that is neither a Filter nor a NumericalExpression.
FactorLeaf(name) == MkTerm("Factor", name, <<>>, <<>>, 0, 0, <<>>)

\* A TestingFilter: a Filter that is not a NumericalExpression.
TestingFilter(name) == MkTerm("TestingFilter", name, <<>>, <<>>, 0, 0, <<>>)

FilterClasses ==
    {"TestingFilter", "NumExprFilter", "PercentileFilter", "SequencedFilter"}

\* A Python value handed to an operator or a constructor: a term, or a scalar
\* with its type name, its str() and (for int and bool) its integer value.
TermVal(t) == [type |-> "term", repr |-> <<>>, num |-> 0, term |-> <<t>>]
IntVal(n, repr) == [type |-> "int", repr |-> repr, num |-> n, term |-> <<>>]
BoolVal(n, repr) == [type |-> "bool", repr |-> repr, num |-> n, term |-> <<>>]
OtherVal(type, repr) == [type |-> type, repr |-> repr, num |-> 0, term |-> <<>>]

IsTerm(v) == v.type = "term"
\* isinstance(v, Filter)
IsFilter(v) == IsTerm(v) /\ v.term[1].cls \in FilterClasses
\* isinstance(v, NumericalExpression): NumExprFilter is the only such class here.
IsNumericalExpression(v) == IsTerm(v) /\ v.term[1].cls = "NumExprFilter"
\* isinstance(v, int), which is true for bool as well
IsInt(v) == v.type \in {"int", "bool"}
\* isinstance(v, Number)
IsNumber(v) == v.type \in {"int", "bool", "float"}
\* type(v).__name__
TypeName(v) == IF IsTerm(v) THEN v.term[1].cls ELSE v.type

(***************************************************************************)
(* String formatting.                                                      *)
(***************************************************************************)
DigitChars == <<"0", "1", "2", "3", "4", "5", "6", "7", "8", "9">>

RECURSIVE NatStr(_)
NatStr(n) ==
    IF n < 10 THEN <<DigitChars[n + 1]>>
    ELSE NatStr(n \div 10) \o <<DigitChars[(n % 10) + 1]>>

\* "%d" % n, "{}".format(n) for an int n
IntStr(n) == IF n < 0 THEN <<"-">> \o NatStr(-n) ELSE NatStr(n)

\* "x_%d" % i
Placeholder(i) == <<"x", "_">> \o NatStr(i)

\* tuple.index
IndexOf(seq, x) == CHOOSE i \in 1..Len(seq) : seq[i] = x /\ \A j \in 1..(i - 1) : seq[j] # x

Contains(seq, x) == \E i \in 1..Len(seq) : seq[i] = x

\* concat_tuples(*tuples)
concat_tuples(a, b) == a \o b

(***************************************************************************)
(* NumericalExpression (zipline/modelling/expression.py): the external     *)
(* collaborator that merges the inputs of two expressions.                 *)
(***************************************************************************)
\* FILTER_BINOPS
FILTER_BINOPS == {"&", "|"}

IsDigit(c) == Contains(DigitChars, c)

RECURSIVE ParseNat(_)
ParseNat(chars) ==
    IF Len(chars) = 0 THEN 0
    ELSE ParseNat(SubSeq(chars, 1, Len(chars) - 1)) * 10
             + (IndexOf(DigitChars, chars[Len(chars)]) - 1)

\* The first position at or after i that holds no digit.
DigitRunEnd(expr, i) ==
    CHOOSE j \in i..(Len(expr) + 1) :
        /\ (j = Len(expr) + 1 \/ ~IsDigit(expr[j]))
        /\ \A k \in i..(j - 1) : IsDigit(expr[k])

\* Whether a placeholder x_<digits> starts at position i of expr.
PlaceholderAt(expr, i) ==
    /\ i + 2 <= Len(expr)
    /\ expr[i] = "x" /\ expr[i + 1] = "_" /\ IsDigit(expr[i + 2])

\* The expression with every placeholder x_i renumbered to the position its
\* input old[i] has in the merged inputs new.
RECURSIVE RebindFrom(_, _, _, _)
RebindFrom(expr, i, old, new) ==
    IF i > Len(expr) THEN <<>>
    ELSE IF PlaceholderAt(expr, i)
    THEN LET j == DigitRunEnd(expr, i + 2)
             k == ParseNat(SubSeq(expr, i + 2, j - 1))
         IN  Placeholder(IndexOf(new, old[k + 1]) - 1) \o RebindFrom(expr, j, old, new)
    ELSE <<expr[i]>> \o RebindFrom(expr, i + 1, old, new)

rebind_variables(self, new_inputs) == RebindFrom(self.expr, 1, self.inputs, new_inputs)

\* The inputs of self followed by the inputs of other that self does not have.
RECURSIVE MergeInputs(_, _)
MergeInputs(mine, theirs) ==
    IF Len(theirs) = 0 THEN mine
    ELSE MergeInputs(IF Contains(mine, Head(theirs)) THEN mine ELSE Append(mine, Head(theirs)),
                     Tail(theirs))

merge_expressions(self, other) ==
    LET new_inputs == MergeInputs(self.inputs, other.inputs)
    IN  [raised |-> "",
         self_expr |-> rebind_variables(self, new_inputs),
         other_expr |-> rebind_variables(other, new_inputs),
         new_inputs |-> new_inputs]

\* build_binary_op(op, other) of the expression self.
build_binary_op(self, op, other) ==
    IF IsNumericalExpression(other) THEN merge_expressions(self, other.term[1])
    ELSE IF IsTerm(other)
    THEN LET new_inputs == MergeInputs(self.inputs, <<other.term[1]>>)
         IN  [raised |-> "",
              self_expr |-> self.expr,
              other_expr |-> Placeholder(IndexOf(new_inputs, other.term[1]) - 1),
              new_inputs |-> new_inputs]
    ELSE IF IsNumber(other)
    THEN [raised |-> "",
          self_expr |-> self.expr,
          other_expr |-> other.repr,
          new_inputs |-> self.inputs]
    ELSE [raised |-> "BadBinaryOperator",
          self_expr |-> <<>>, other_expr |-> <<>>, new_inputs |-> <<>>]

(***************************************************************************)
(* What a call returns or raises.                                          *)
(***************************************************************************)
NoException == [op |-> "", left |-> <<>>, right |-> <<>>,
                min_percentile |-> 0, max_percentile |-> 0, msg |-> <<>>]

Return(t) == [raised |-> "", exc |-> NoException, ret |-> <<t>>]

Raise(class, exc) == [raised |-> class, exc |-> exc, ret |-> <<>>]

\* BadBinaryOperator(op, left, right)
BadBinaryOperator(op, left, right) ==
    Raise("BadBinaryOperator",
          [NoException EXCEPT !.op = op, !.left = <<left>>, !.right = <<right>>])

\* BadPercentileBounds(min_percentile=..., max_percentile=...)
BadPercentileBounds(lo, hi) ==
    Raise("BadPercentileBounds",
          [NoException EXCEPT !.min_percentile = lo, !.max_percentile = hi])

\* TypeError("Expected Filter, got %s" % type(v).__name__)
ExpectedFilter(v) ==
    Raise("TypeError", [NoException EXCEPT !.msg = <<"Expected Filter, got ", TypeName(v)>>])

\* Reading v.inputs of a value that is no Term:
\* AttributeError("'<type>' object has no attribute 'inputs'")
NoInputsAttribute(v) ==
    Raise("AttributeError",
          [NoException EXCEPT !.msg = <<"'", TypeName(v), "' object has no attribute 'inputs'">>])

(***************************************************************************)
(* binary_operator(op)(self, other)                                        *)
(***************************************************************************)
\* NumExprFilter(expr, binds)
NumExprFilter(expr, binds) == MkTerm("NumExprFilter", "", expr, binds, 0, 0, <<>>)

\* The branch taken when self is a NumericalExpression.
ExpressionOperator(op, self, other) ==
    LET built == build_binary_op(self.term[1], op, other)
    IN  IF built.raised # ""
        THEN BadBinaryOperator(op, self, other)
        ELSE Return(NumExprFilter(
                 <<"(">> \o built.self_expr \o <<")", " ", op, " ", "(">>
                     \o built.other_expr \o <<")">>,
                 built.new_inputs))

\* commuted_method_getter(other)(self): the reflected operator method of the
\* NumericalExpression other, called with the Filter self as its right operand.
CommutedMethod(op, other, self) == ExpressionOperator(op, other, self)

\* FilterOperator binding its two inputs in the order (other, self).
FilterOperator_swapped(op, self, other) ==
    IF self = other
    THEN Return(NumExprFilter(<<"x", "_", "0", " ", op, " ", "x", "_", "0">>,
                              <<self.term[1]>>))
    ELSE Return(NumExprFilter(<<"x", "_", "0", " ", op, " ", "x", "_", "1">>,
                              <<other.term[1], self.term[1]>>))

\* FilterOperator without the `self is other` test.
FilterOperator_no_identity(op, self, other) ==
    Return(NumExprFilter(<<"x", "_", "0", " ", op, " ", "x", "_", "1">>,
                         <<self.term[1], other.term[1]>>))

\* The branch taken when other is a Filter and neither operand is a
\* NumericalExpression.
FilterOperator(op, self, other) ==
    IF self = other
    THEN Return(NumExprFilter(<<"x", "_", "0", " ", op, " ", "x", "_", "0">>,
                              <<self.term[1]>>))
    ELSE Return(NumExprFilter(<<"x", "_", "0", " ", op, " ", "x", "_", "1">>,
                              <<self.term[1], other.term[1]>>))

\* ConstantOperator formatting other itself instead of int(other).
ConstantOperator_no_int(op, self, other) ==
    Return(NumExprFilter(<<"x", "_", "0", " ", op, " ", "(">> \o other.repr \o <<")">>,
                         <<self.term[1]>>))

\* The branch taken when other is an int (or a bool).
ConstantOperator(op, self, other) ==
    Return(NumExprFilter(<<"x", "_", "0", " ", op, " ", "(">> \o IntStr(other.num) \o <<")">>,
                         <<self.term[1]>>))

\* binary_operator testing isinstance(other, Number) instead of int.
binary_operator_any_number(op, self, other) ==
    IF IsNumericalExpression(self) THEN ExpressionOperator(op, self, other)
    ELSE IF IsNumericalExpression(other) THEN CommutedMethod(op, other, self)
    ELSE IF IsFilter(other) THEN FilterOperator(op, self, other)
    ELSE IF IsNumber(other) THEN ConstantOperator(op, self, other)
    ELSE BadBinaryOperator(op, self, other)

binary_operator(op, self, other) ==
    IF IsNumericalExpression(self) THEN ExpressionOperator(op, self, other)
    ELSE IF IsNumericalExpression(other) THEN CommutedMethod(op, other, self)
    ELSE IF IsFilter(other) THEN FilterOperator(op, self, other)
    ELSE IF IsInt(other) THEN ConstantOperator(op, self, other)
    ELSE BadBinaryOperator(op, self, other)

(***************************************************************************)
(* PercentileFilter and SequencedFilter construction.  Term.__new__ calls  *)
(* _init and then _validate; a _validate that raises aborts construction.  *)
(***************************************************************************)
\* PercentileFilter._validate accepting equal bounds.
PercentileFilter_validate_not_strict(lo, hi) == 0 <= lo /\ lo <= hi /\ hi <= 100

\* PercentileFilter._validate
PercentileFilter_validate(lo, hi) == 0 <= lo /\ lo < hi /\ hi <= 100

\* PercentileFilter(factor, min_percentile, max_percentile)
PercentileFilter(factor, lo, hi) ==
    IF ~PercentileFilter_validate(lo, hi)
    THEN BadPercentileBounds(lo, hi)
    ELSE Return(MkTerm("PercentileFilter", "", <<>>, <<factor>>, lo, hi, <<>>))

\* SequencedFilter._validate: the first operand that is no Filter, if any.
SequencedFilter_validate(first, then) ==
    IF ~IsFilter(first) THEN <<first>>
    ELSE IF ~IsFilter(then) THEN <<then>>
    ELSE <<>>

\* SequencedFilter(first, then)
SequencedFilter(first, then) ==
    IF ~IsTerm(then) THEN NoInputsAttribute(then)
    ELSE LET bad == SequencedFilter_validate(first, then)
         IN  IF bad # <<>> THEN ExpectedFilter(bad[1])
             ELSE Return(MkTerm("SequencedFilter", "", <<>>,
                                concat_tuples(<<first.term[1]>>, then.term[1].inputs),
                                0, 0, <<then.term[1]>>))

\* Filter.then(other)
then(self, other) == SequencedFilter(self, other)

(***************************************************************************)
(* The construction session: user code builds terms out of the leaf terms  *)
(* and holds on to some of them.  `terms` are the terms the session holds  *)
(* (the interning cache keeps a term only while it is referenced),         *)
(* `outcome` is the last call with what it returned or raised.             *)
(***************************************************************************)
\* The terms a session starts from: a factor and two filters over it.
LeafFactor == FactorLeaf("F")
LeafFilter == TestingFilter("f")
LeafPercentile == PercentileFilter(LeafFactor, 20, 80).ret[1]
Leaves == {LeafFactor, LeafFilter, LeafPercentile}

\* The state of the engine before and after a computation.
Idle == [pc |-> "idle", term |-> <<>>, arrays |-> <<>>, mask |-> <<>>, raw |-> <<>>,
         result |-> <<>>, calls |-> <<>>]

\* The scalars user code hands to an operator or a constructor.
Scalars ==
    {IntVal(0, <<"0">>), IntVal(1, <<"1">>), IntVal(-12, <<"-", "1", "2">>),
     BoolVal(1, <<"T", "r", "u", "e">>), BoolVal(0, <<"F", "a", "l", "s", "e">>),
     OtherVal("float", <<"1", ".", "5">>), OtherVal("NoneType", <<"N", "o", "n", "e">>)}

\* The percentile bounds user code asks for.
PercentileArgs == {-10, 0, 50, 100, 110}

Values == {TermVal(t) : t \in terms} \cup Scalars

Filters == {t \in terms : t.cls \in FilterClasses}

NoCall == [call |-> "", op |-> "", args |-> <<>>, min_percentile |-> 0, max_percentile |-> 0,
           raised |-> "", exc |-> NoException, ret |-> <<>>]

Called(call, op, args, lo, hi, r) ==
    [call |-> call, op |-> op, args |-> args, min_percentile |-> lo, max_percentile |-> hi,
     raised |-> r.raised, exc |-> r.exc, ret |-> r.ret]

RECURSIVE SumSizes(_, _)
\* How many operator and constructor applications a term is made of.
TermSize(t) ==
    IF t \in Leaves THEN 0
    ELSE IF t.cls = "NumExprFilter"
    THEN Cardinality({i \in 1..Len(t.expr) : t.expr[i] \in FILTER_BINOPS})
             + SumSizes(t.inputs, Len(t.inputs))
    ELSE IF t.cls = "PercentileFilter" THEN 1
    ELSE IF t.cls = "SequencedFilter"
    THEN 1 + SumSizes(<<t.inputs[1]>>, 1) + SumSizes(t.then, 1)
    ELSE 0

SumSizes(seq, n) == IF n = 0 THEN 0 ELSE TermSize(seq[n]) + SumSizes(seq, n - 1)

RECURSIVE SetSize(_)
SetSize(S) == IF S = {} THEN 0 ELSE LET t == CHOOSE x \in S : TRUE IN TermSize(t) + SetSize(S \ {t})

\* The session keeps the term a call returns while the terms it holds stay
\* within MaxSize applications; a call that raises returns nothing to keep.
Held(r) ==
    LET with == terms \cup {r.ret[i] : i \in 1..Len(r.ret)}
    IN  IF SetSize(with) <= MaxSize THEN with ELSE terms

Init ==
    /\ terms = Leaves
    /\ outcome = NoCall
    /\ run = Idle

\* self <op> other, for a Filter self
ApplyOperator ==
    \E op \in FILTER_BINOPS, self \in Filters, other \in Values :
        LET r == binary_operator(op, TermVal(self), other)
        IN  /\ outcome' = Called("binary_operator", op, <<TermVal(self), other>>, 0, 0, r)
            /\ terms' = Held(r)
            /\ UNCHANGED run

\* PercentileFilter(factor, min_percentile, max_percentile)
NewPercentileFilter ==
    \E factor \in {t \in terms : t.cls = "Factor"}, lo \in PercentileArgs, hi \in PercentileArgs :
        LET r == PercentileFilter(factor, lo, hi)
        IN  /\ outcome' = Called("PercentileFilter", "", <<TermVal(factor)>>, lo, hi, r)
            /\ terms' = Held(r)
            /\ UNCHANGED run

\* SequencedFilter(first, then)
NewSequencedFilter ==
    \E first \in Values, other \in Values :
        LET r == SequencedFilter(first, other)
        IN  /\ outcome' = Called("SequencedFilter", "", <<first, other>>, 0, 0, r)
            /\ terms' = Held(r)
            /\ UNCHANGED run

\* self.then(other), for a Filter self
CallThen ==
    \E self \in Filters, other \in Values :
        LET r == then(TermVal(self), other)
        IN  /\ outcome' = Called("then", "", <<TermVal(self), other>>, 0, 0, r)
            /\ terms' = Held(r)
            /\ UNCHANGED run

\* Composition of filters with the operators.
Next == ApplyOperator

Spec == Init /\ [][Next]_vars

\* Construction of percentile and sequenced filters.
NextConstruct == NewPercentileFilter \/ NewSequencedFilter \/ CallThen

SpecConstruct == Init /\ [][NextConstruct]_vars

(***************************************************************************)
(* compute_from_arrays.  A panel is a sequence of rows, a row holds one    *)
(* value per entity.  Percentile bounds are kept as exact multiples of     *)
(* 1/100, so a bound b stands for the integer 100 * b.                     *)
(***************************************************************************)
\* numpy.nan
nan == -1

\* a & b on two boolean panels of one shape
PanelAnd(a, b) ==
    [r \in 1..Len(a) |-> [i \in 1..Len(a[r]) |-> a[r][i] /\ b[r][i]]]

\* NumExprFilter.compute_from_arrays returning the numexpr result as it is.
NumExprFilter_compute_unmasked(numexpr_result, mask) == numexpr_result

\* NumExprFilter.compute_from_arrays: numexpr_result is what the numexpr
\* evaluation of the expression over the arrays returned.
NumExprFilter_compute(numexpr_result, mask) == PanelAnd(numexpr_result, mask)

\* The data left as it is where mask is false.
MaskedData_kept(array, mask) == array

\* data = arrays[0].astype(float64); data[~mask.values] = nan
MaskedData(array, mask) ==
    [r \in 1..Len(array) |->
        [i \in 1..Len(array[r]) |-> IF mask[r][i] THEN array[r][i] ELSE nan]]

RECURSIVE Insert(_, _)
Insert(sorted, x) ==
    IF Len(sorted) = 0 THEN <<x>>
    ELSE IF x <= Head(sorted) THEN <<x>> \o sorted
    ELSE <<Head(sorted)>> \o Insert(Tail(sorted), x)

RECURSIVE SortedNumbers(_)
\* The values of a row that are no nan, in ascending order.
SortedNumbers(row) ==
    IF Len(row) = 0 THEN <<>>
    ELSE IF Head(row) = nan THEN SortedNumbers(Tail(row))
    ELSE Insert(SortedNumbers(Tail(row)), Head(row))

\* nanpercentile of one row: 100 times the q-th percentile of the values that
\* are no nan, by linear interpolation between the two nearest ranks; nan for
\* a row that holds no value.
RowPercentile(row, q) ==
    LET sorted == SortedNumbers(row)
        n == Len(sorted)
        below == (q * (n - 1)) \div 100
        weight_above == (q * (n - 1)) % 100
    IN  IF n = 0 THEN nan
        ELSE IF weight_above = 0 THEN 100 * sorted[below + 1]
        ELSE sorted[below + 1] * (100 - weight_above) + sorted[below + 2] * weight_above

\* nanpercentile(data, q, axis=1, keepdims=True)
nanpercentile(data, q) == [r \in 1..Len(data) |-> RowPercentile(data[r], q)]

\* bound <= value and value <= bound, which are False when either is nan
BoundLeq(bound, value) == bound # nan /\ value # nan /\ bound <= 100 * value
LeqBound(value, bound) == bound # nan /\ value # nan /\ 100 * value <= bound

\* PercentileFilter.compute_from_arrays
PercentileFilter_compute(self, arrays, mask) ==
    LET data == MaskedData(arrays[1], mask)
        lower_bounds == nanpercentile(data, self.min_percentile)
        upper_bounds == nanpercentile(data, self.max_percentile)
    IN  [r \in 1..Len(data) |->
            [i \in 1..Len(data[r]) |->
                BoundLeq(lower_bounds[r], data[r][i]) /\ LeqBound(data[r][i], upper_bounds[r])]]

\* What a computation returns, with the calls of compute_from_arrays it made.
Computed(result, calls) == [result |-> result, calls |-> calls]

\* A call of callee.compute_from_arrays(arrays, mask) and what it returned.
CallRecord(callee, arrays, mask, returned) ==
    [term |-> callee, arrays |-> arrays, mask |-> mask, returned |-> returned]

RECURSIVE compute_from_arrays(_, _, _, _)

\* SequencedFilter.compute_from_arrays handing mask on as it is.
SequencedFilter_compute_same_mask(self, arrays, mask, numexpr_result) ==
    LET then_inputs == Tail(arrays)
        inner == compute_from_arrays(self.then[1], then_inputs, mask, numexpr_result)
    IN  Computed(inner.result,
                 <<CallRecord(self.then[1], then_inputs, mask, inner.result)>>
                     \o inner.calls)

\* SequencedFilter.compute_from_arrays handing on first_result as the mask.
SequencedFilter_compute_first_only(self, arrays, mask, numexpr_result) ==
    LET first_result == arrays[1]
        then_inputs == Tail(arrays)
        inner == compute_from_arrays(self.then[1], then_inputs, first_result, numexpr_result)
    IN  Computed(inner.result,
                 <<CallRecord(self.then[1], then_inputs, first_result, inner.result)>>
                     \o inner.calls)

\* SequencedFilter.compute_from_arrays
SequencedFilter_compute(self, arrays, mask, numexpr_result) ==
    LET first_result == arrays[1]
        then_inputs == Tail(arrays)
        narrowed == PanelAnd(mask, first_result)
        inner == compute_from_arrays(self.then[1], then_inputs, narrowed, numexpr_result)
    IN  Computed(inner.result,
                 <<CallRecord(self.then[1], then_inputs, narrowed, inner.result)>>
                     \o inner.calls)

\* term.compute_from_arrays(arrays, mask)
compute_from_arrays(self, arrays, mask, numexpr_result) ==
    IF self.cls = "NumExprFilter"
    THEN Computed(NumExprFilter_compute(numexpr_result, mask), <<>>)
    ELSE IF self.cls = "PercentileFilter"
    THEN Computed(PercentileFilter_compute(self, arrays, mask), <<>>)
    ELSE SequencedFilter_compute(self, arrays, mask, numexpr_result)

(***************************************************************************)
(* The engine: it hands a filter the materialized arrays of its inputs and *)
(* a mask of the same shape, and takes the boolean panel it returns.       *)
(***************************************************************************)
\* The filters the engine evaluates, built from the leaf terms.
ExprOfConstant == binary_operator("|", TermVal(LeafFilter), IntVal(1, <<"1">>)).ret[1]
ExprOfFilters == binary_operator("&", TermVal(LeafFilter), TermVal(LeafPercentile)).ret[1]
LowerHalf == PercentileFilter(LeafFactor, 0, 50).ret[1]
ThenExpr == then(TermVal(LeafFilter), TermVal(ExprOfConstant)).ret[1]
ThenPercentile == then(TermVal(LeafFilter), TermVal(LeafPercentile)).ret[1]
ThenThenExpr == then(TermVal(LeafPercentile), TermVal(ThenExpr)).ret[1]
ThenThenPercentile ==
    then(TermVal(ExprOfConstant),
         TermVal(then(TermVal(LeafFilter), TermVal(LowerHalf)).ret[1])).ret[1]

Computable ==
    {ExprOfConstant, ExprOfFilters, LeafPercentile, LowerHalf,
     ThenExpr, ThenPercentile, ThenThenExpr, ThenThenPercentile}

\* The values a factor takes.
FactorValues == {nan, 10, 20}

BoolPanels(rows, columns) == [1..rows -> [1..columns -> BOOLEAN]]

FactorPanels(rows, columns) == [1..rows -> [1..columns -> FactorValues]]

\* One row of five entities, the values 10 to 50.
ScenarioPanel == << <<10, 20, 30, 40, 50>> >>

\* The panels the engine materializes for an input term.
PanelsOf(input, rows) ==
    IF input.cls \in FilterClasses THEN BoolPanels(rows, NumEntities)
    ELSE FactorPanels(rows, NumEntities)

RECURSIVE ArraysFor(_, _)
\* One materialized array per input, in the order of the inputs.
ArraysFor(inputs, rows) ==
    IF Len(inputs) = 0 THEN {<<>>}
    ELSE {<<first>> \o rest : first \in PanelsOf(Head(inputs), rows),
                              rest \in ArraysFor(Tail(inputs), rows)}

\* The percentile reduction works row by row: its panels have one or two
\* rows.  The other computations are pointwise: their panels have one row.
RowCounts(t) == IF t.cls = "PercentileFilter" THEN {1, 2} ELSE {1}

RECURSIVE Innermost(_)
\* The filter at the end of a chain of sequenced filters.
Innermost(t) == IF t.cls = "SequencedFilter" THEN Innermost(t.then[1]) ELSE t

\* What the numexpr evaluation may return: any boolean panel of the shape.
NumExprResults(t, mask) ==
    IF Innermost(t).cls = "NumExprFilter"
    THEN BoolPanels(Len(mask), Len(mask[1]))
    ELSE {<<>>}

Computation(t, arrays, mask, numexpr_result) ==
    LET c == compute_from_arrays(t, arrays, mask, numexpr_result)
    IN  [pc |-> "done", term |-> <<t>>, arrays |-> arrays, mask |-> mask,
         raw |-> numexpr_result, result |-> c.result, calls |-> c.calls]

InitCompute ==
    /\ terms = Leaves \cup Computable
    /\ outcome = NoCall
    /\ run = Idle

\* The engine computes a filter over panels of NumEntities entities.
Compute ==
    /\ run.pc = "idle"
    /\ \E t \in terms \cap Computable, rows \in {1, 2} :
         /\ rows \in RowCounts(t)
         /\ \E arrays \in ArraysFor(t.inputs, rows), mask \in BoolPanels(rows, NumEntities) :
              \E numexpr_result \in NumExprResults(t, mask) :
                  run' = Computation(t, arrays, mask, numexpr_result)
    /\ UNCHANGED <<terms, outcome>>

\* The engine computes a percentile filter over the five-entity row.
ComputeScenario ==
    /\ run.pc = "idle"
    /\ \E t \in {x \in terms \cap Computable : x.cls = "PercentileFilter"},
          mask \in BoolPanels(1, Len(ScenarioPanel[1])) :
         run' = Computation(t, <<ScenarioPanel>>, mask, <<>>)
    /\ UNCHANGED <<terms, outcome>>

\* The engine takes the result.
Finish ==
    /\ run.pc = "done"
    /\ run' = Idle
    /\ UNCHANGED <<terms, outcome>>

NextCompute == Compute \/ ComputeScenario \/ Finish

SpecCompute == InitCompute /\ [][NextCompute]_vars

(***************************************************************************)
(* Properties of the operator dispatch routine, under Spec.                *)
(***************************************************************************)
OperatorCalled == outcome.call = "binary_operator"
Left == outcome.args[1]
Right == outcome.args[2]
Returned == outcome.ret[1]

\* The literal text "<left> <op> <right>".
Infix(left, op, right) == left \o <<" ", op, " ">> \o right

\* What a filter combined with a filter must return.
FilterFilterResult ==
    /\ outcome.raised = "" /\ Len(outcome.ret) = 1
    /\ Returned.cls = "NumExprFilter"
    /\ IF Left = Right
       THEN /\ Returned.inputs = <<Left.term[1]>>
            /\ Returned.expr = Infix(<<"x", "_", "0">>, outcome.op, <<"x", "_", "0">>)
       ELSE /\ Returned.inputs = <<Left.term[1], Right.term[1]>>
            /\ Returned.expr = Infix(<<"x", "_", "0">>, outcome.op, <<"x", "_", "1">>)

\* C1 as stated: for all Filters a and b, NumExprFilter included, `a op a` is
\* the expression `x_0 op x_0` over the one input (a), and `a op b` for
\* distinct a and b is `x_0 op x_1` over the inputs (a, b).
C1_AnyFilters ==
    (OperatorCalled /\ IsFilter(Left) /\ IsFilter(Right)) => FilterFilterResult

\* C1 amended: for all Filters a and b neither of which is a NumExprFilter,
\* `a op a` is `x_0 op x_0` over (a), and `a op b` for distinct a and b is
\* `x_0 op x_1` over (a, b).
C1_PlainFilters ==
    (/\ OperatorCalled /\ IsFilter(Left) /\ IsFilter(Right)
     /\ ~IsNumericalExpression(Left) /\ ~IsNumericalExpression(Right))
        => FilterFilterResult

\* A testing filter has been combined with a distinct percentile filter.
C1_Witness ==
    /\ OperatorCalled /\ IsFilter(Left) /\ IsFilter(Right)
    /\ Left.term[1].cls = "TestingFilter" /\ Right.term[1].cls = "PercentileFilter"
    /\ outcome.op = "|" /\ outcome.raised = ""

\* The integer literal of an int or bool constant: a bool by its integer value.
ConstantLiteral(k) ==
    IF k.type = "bool" THEN (IF k.num = 1 THEN <<"1">> ELSE <<"0">>) ELSE k.repr

\* What a filter combined with an integer or boolean constant must return.
FilterConstantResult ==
    /\ outcome.raised = "" /\ Len(outcome.ret) = 1
    /\ Returned.cls = "NumExprFilter"
    /\ Returned.inputs = <<Left.term[1]>>
    /\ Returned.expr =
           Infix(<<"x", "_", "0">>, outcome.op, <<"(">> \o ConstantLiteral(Right) \o <<")">>)

\* C2 as stated: for all Filters a of any subclass and every int or bool k,
\* `a op k` is the expression `x_0 op (<k as an integer>)` over the one input (a).
C2_AnyFilter ==
    (OperatorCalled /\ IsFilter(Left) /\ IsInt(Right)) => FilterConstantResult

\* C2 amended: for all Filters a that are no NumExprFilter and every int or
\* bool k, `a op k` is `x_0 op (<k as an integer>)` over the one input (a), so
\* that `a & True` is `a & 1` and `a & False` is `a & 0`.
C2_PlainFilter ==
    (OperatorCalled /\ IsFilter(Left) /\ ~IsNumericalExpression(Left) /\ IsInt(Right))
        => FilterConstantResult

\* A filter that is no expression has been combined with True.
C2_Witness ==
    /\ OperatorCalled /\ IsFilter(Left) /\ ~IsNumericalExpression(Left)
    /\ Right.type = "bool" /\ Right.num = 1
    /\ outcome.raised = ""
    /\ Returned.expr = <<"x", "_", "0", " ", "&", " ", "(", "1", ")">>

\* A right operand that is no expression, no Filter and no int or bool.
Unsupported(v) == ~IsNumericalExpression(v) /\ ~IsFilter(v) /\ ~IsInt(v)

\* The operation failed with BadBinaryOperator(op, left, right).
FailedBadBinaryOperator ==
    /\ outcome.raised = "BadBinaryOperator"
    /\ outcome.exc.op = outcome.op
    /\ outcome.exc.left = <<Left>>
    /\ outcome.exc.right = <<Right>>
    /\ outcome.ret = <<>>

PlaceholderIndices(expr) ==
    {ParseNat(SubSeq(expr, i + 2, DigitRunEnd(expr, i + 2) - 1)) :
        i \in {j \in 1..Len(expr) : PlaceholderAt(expr, j)}}

\* The terms that exist: those the session holds and the one just returned.
Existing == terms \cup {outcome.ret[i] : i \in 1..Len(outcome.ret)}

WellFormedBounds(lo, hi) == 0 <= lo /\ lo < hi /\ hi <= 100

Offending == IF ~IsFilter(Left) THEN Left ELSE Right

\* C4: SequencedFilter(first, then), called directly or through Filter.then,
\* with a first or a then that is no Filter (a then that is no term at all
\* included) fails with TypeError "Expected Filter, got <type name>" and
\* creates no node.
C4_ExpectedFilter ==
    (/\ outcome.call \in {"SequencedFilter", "then"}
     /\ (~IsFilter(Left) \/ ~IsFilter(Right)))
        => /\ outcome.raised = "TypeError"
           /\ outcome.exc.msg = <<"Expected Filter, got ", TypeName(Offending)>>
           /\ outcome.ret = <<>>

(***************************************************************************)
(* Properties of compute_from_arrays, under SpecCompute.                   *)
(***************************************************************************)
Done == run.pc = "done"
Computing(cls) == Done /\ run.term[1].cls = cls
RowsOf(panel) == 1..Len(panel)
ColumnsOf(panel, r) == 1..Len(panel[r])

\* C6: NumExprFilter.compute_from_arrays returns the raw expression result
\* ANDed with mask: false wherever mask is false, the raw value wherever mask
\* is true.
C6_ResultIsRawAndMask ==
    Computing("NumExprFilter") =>
        \A r \in RowsOf(run.mask) : \A i \in ColumnsOf(run.mask, r) :
            /\ ~run.mask[r][i] => ~run.result[r][i]
            /\ run.mask[r][i] => (run.result[r][i] <=> run.raw[r][i])

\* An expression was computed whose raw result is true at a masked-out place.
C6_Witness ==
    /\ Computing("NumExprFilter")
    /\ \E r \in RowsOf(run.mask) : \E i \in ColumnsOf(run.mask, r) :
           run.raw[r][i] /\ ~run.mask[r][i]
    /\ \E r \in RowsOf(run.mask) : \E i \in ColumnsOf(run.mask, r) : run.result[r][i]

\* How many sequenced filters a chain is made of.
RECURSIVE ChainLength(_)
ChainLength(t) == IF t.cls = "SequencedFilter" THEN 1 + ChainLength(t.then[1]) ELSE 0

\* C7: computing f.then(g) calls g.compute_from_arrays once, with the arrays
\* after the first (as many as g has inputs) and the mask `mask AND arrays[0]`,
\* and returns what the call returned.
C7_ThenCalledOnNarrowedMask ==
    Computing("SequencedFilter") =>
        LET g == run.term[1].then[1]
            call == run.calls[1]
        IN  /\ Len(run.calls) = ChainLength(run.term[1])
            /\ call.term = g
            /\ Len(call.arrays) = Len(g.inputs)
            /\ \A k \in 1..Len(call.arrays) : call.arrays[k] = run.arrays[k + 1]
            /\ \A r \in RowsOf(run.mask) : \A i \in ColumnsOf(run.mask, r) :
                   call.mask[r][i] <=> (run.mask[r][i] /\ run.arrays[1][r][i])
            /\ run.result = call.returned

\* A sequenced filter was computed where the first filter rejects an entity
\* the mask admits.
C7_Witness ==
    /\ Computing("SequencedFilter")
    /\ \E r \in RowsOf(run.mask) : \E i \in ColumnsOf(run.mask, r) :
           run.mask[r][i] /\ ~run.arrays[1][r][i]
    /\ \E r \in RowsOf(run.mask) : \E i \in ColumnsOf(run.mask, r) : run.result[r][i]

\* The entities of row r that take part in the percentiles: those the mask
\* admits and whose value is a number.
Ranked(r) ==
    {i \in ColumnsOf(run.mask, r) : run.mask[r][i] /\ run.arrays[1][r][i] # nan}

\* The ranked entities of row r in ascending order of their values.
Ranking(r) ==
    CHOOSE s \in [1..Cardinality(Ranked(r)) -> Ranked(r)] :
        /\ \A a, b \in 1..Cardinality(Ranked(r)) : a # b => s[a] # s[b]
        /\ \A a, b \in 1..Cardinality(Ranked(r)) :
               a < b => run.arrays[1][r][s[a]] <= run.arrays[1][r][s[b]]

\* 100 times the q-th percentile of the ranked values of row r: the value at
\* rank q/100 * (n - 1), interpolated linearly between its two neighbours.
RankedPercentile(r, q) ==
    LET n == Cardinality(Ranked(r))
        rank == q * (n - 1)
        low == run.arrays[1][r][Ranking(r)[(rank \div 100) + 1]]
        high == IF rank % 100 = 0 THEN low
                ELSE run.arrays[1][r][Ranking(r)[(rank \div 100) + 2]]
    IN  100 * low + (rank % 100) * (high - low)

\* The panel with the value at row r, entity i replaced by v.
Replaced(panel, r, i, v) == [panel EXCEPT ![r] = [panel[r] EXCEPT ![i] = v]]

\* C8: PercentileFilter.compute_from_arrays takes, row by row, the min- and
\* max-percentile of the values at the places mask admits; the result is true
\* exactly where mask is true and the value lies within the two bounds, ends
\* included; the value of a masked-out entity changes nothing; the row
\* [10, 20, 30, 40, 50], all valid, with bounds 20 and 80 gives
\* [False, True, True, True, False].
C8_PercentileBand ==
    Computing("PercentileFilter") =>
        LET self == run.term[1]
            data == run.arrays[1]
        IN  /\ \A r \in RowsOf(run.mask) : \A i \in ColumnsOf(run.mask, r) :
                   run.result[r][i] <=>
                       /\ i \in Ranked(r)
                       /\ RankedPercentile(r, self.min_percentile) <= 100 * data[r][i]
                       /\ 100 * data[r][i] <= RankedPercentile(r, self.max_percentile)
            /\ \A r \in RowsOf(run.mask) : \A i \in ColumnsOf(run.mask, r) :
                   ~run.mask[r][i] =>
                       /\ ~run.result[r][i]
                       /\ \A v \in FactorValues \cup {30} :
                              PercentileFilter_compute(self, <<Replaced(data, r, i, v)>>, run.mask)
                                  = run.result
            /\ (/\ data = ScenarioPanel
                /\ \A i \in ColumnsOf(run.mask, 1) : run.mask[1][i]
                /\ self.min_percentile = 20 /\ self.max_percentile = 80)
                   => run.result = << <<FALSE, TRUE, TRUE, TRUE, FALSE>> >>

\* The percentile filter with bounds 20 and 80 was computed over the row
\* [10, 20, 30, 40, 50] with its last entity masked out.
C8_Witness ==
    /\ Computing("PercentileFilter")
    /\ run.term[1].min_percentile = 20 /\ run.term[1].max_percentile = 80
    /\ run.arrays[1] = ScenarioPanel
    /\ run.mask = << <<TRUE, TRUE, TRUE, TRUE, FALSE>> >>
    /\ run.result = << <<FALSE, TRUE, TRUE, FALSE, FALSE>> >>

\* C10: a chain of `then` sequencings that ends in a NumExprFilter or a
\* PercentileFilter returns false wherever mask is false and wherever the
\* result of a first filter of the chain is false.
C10_SequencingOnlyNarrows ==
    Computing("SequencedFilter") =>
        \A r \in RowsOf(run.mask) : \A i \in ColumnsOf(run.mask, r) :
            run.result[r][i] =>
                /\ run.mask[r][i]
                /\ \A k \in 1..ChainLength(run.term[1]) : run.arrays[k][r][i]

\* A chain of two sequencings was computed where the inner first filter
\* rejects an entity that the mask and the outer first filter admit.
C10_Witness ==
    /\ Computing("SequencedFilter")
    /\ ChainLength(run.term[1]) = 2
    /\ \E r \in RowsOf(run.mask) : \E i \in ColumnsOf(run.mask, r) :
           run.mask[r][i] /\ run.arrays[1][r][i] /\ ~run.arrays[2][r][i]
    /\ \E r \in RowsOf(run.mask) : \E i \in ColumnsOf(run.mask, r) : run.result[r][i]

====
